---------------------------- MODULE Spec2Model ----------------------------
(***************************************************************************)
(* State-machine model of the two scripts of the repository:               *)
(*   scripts/redeem.py        the Redemption Invoker  (SpecRedeem)         *)
(*   scripts/pyth_compare.py  the Oracle Comparator   (SpecCompare)        *)
(* Each script is a sequential program; one action models the code between *)
(* two external calls (SDK call, HTTP request, sleep, file write).         *)
(***************************************************************************)
EXTENDS Integers, Sequences, FiniteSets, TLC

VARIABLES
    \* ---- redeem.py ----
    argv,            \* sys.argv
    environ,         \* os.environ restricted to the required variables
    at,              \* position of main()
    condition_id,    \* local of main()
    neg_risk,        \* local of main()
    stdout,          \* JSON objects printed so far
    exitCode,        \* process exit status, meaningful when at = "exited"
    calls,           \* external SDK calls invoked so far, in order
    sdkResult,       \* what client construction did / does
    resolvedResult,  \* what service.is_condition_resolved did / does
    balanceResult,   \* what service.get_redeemable_index_and_balance did / does
    redeemResult,    \* what service.redeem did / does
    prev,            \* observation of the previous invocation, if any
    \* ---- pyth_compare.py ----
    samples,         \* json.load of the samples file
    loc,             \* position of the script
    i,               \* loop index (1-based here, enumerate() is 0-based)
    po, pc, pd, ok,  \* globals of the loop body
    m, x,            \* match / mismatch counters
    results,         \* result lines collected for the report
    console,         \* lines printed to standard output
    net,             \* oracle requests and pauses, in order
    report           \* content of the report file

redeemVars == <<argv, environ, at, condition_id, neg_risk, stdout, exitCode,
                calls, sdkResult, resolvedResult, balanceResult, redeemResult, prev>>
compareVars == <<samples, loc, i, po, pc, pd, ok, m, x, results, console, net, report>>
vars == <<redeemVars, compareVars>>

-----------------------------------------------------------------------------
(* Bounds of the model                                                     *)

MaxUnset == 1        \* required variables that are unset or empty
MaxEntries == 2      \* entries of a balance query result
MaxBalance == 1      \* largest balance of an entry
MaxSamples == 2      \* samples in the input file
MaxPrice == 2        \* largest oracle price

-----------------------------------------------------------------------------
(* redeem.py                                                               *)

Script == "redeem.py"
Cid == "0xc0ffee"
NegRiskFlag == "--neg-risk"
None == "<None>"

required_vars ==
    << "POLY_PRIVATE_KEY", "POLY_API_KEY", "POLY_API_SECRET", "POLY_PASSPHRASE",
       "POLY_PROXY_ADDRESS", "BUILDER_API_KEY", "BUILDER_SECRET", "BUILDER_PASSPHRASE" >>

RequiredSet == { required_vars[k] : k \in 1..Len(required_vars) }

\* os.environ.get(v): the value, or None when the variable is not set
EnvGet(env, v) == env[v]

\* Python truthiness of a str-or-None value: None and "" are falsy
TruthyNotNone(val) == val # None
Truthy(val) == val \notin {None, ""}

\* missing = [v for v in required_vars if not os.environ.get(v)]
MissingClobOnly(env) ==
    SelectSeq(SubSeq(required_vars, 1, 5), LAMBDA v : ~Truthy(EnvGet(env, v)))
Missing(env) == SelectSeq(required_vars, LAMBDA v : ~Truthy(EnvGet(env, v)))

\* neg_risk = "--neg-risk" in sys.argv
InArgv(flag, args) == \E k \in 1..Len(args) : args[k] = flag

\* ---- the JSON objects written to standard output ----
\* keys: the keys of the object; detail: the variable part of its message
JsonObject(status, message, extra, detail) ==
    [status |-> status, message |-> message,
     keys |-> {"status", "message"} \cup extra, detail |-> detail]

UsageError ==
    JsonObject("ERROR", "Usage: redeem.py <condition_id> [--neg-risk]", {}, <<>>)
ConfigError(missing) == JsonObject("ERROR", "Missing env vars: ", {}, missing)
ResolutionError(e) == JsonObject("ERROR", "Failed to check resolution: ", {}, <<e>>)
NotResolved == JsonObject("NOT_RESOLVED", "Condition not yet resolved", {}, <<>>)
NoBalance == JsonObject("NO_BALANCE", "No redeemable balance", {}, <<>>)
UnexpectedError(e) == JsonObject("ERROR", "str(e)", {"traceback"}, <<e>>)

\* str(redeem_result.get(key, "")): redeem_result is modelled by the set of keys it holds
TxField(redeem_result, key) == IF key \in redeem_result THEN "value:" \o key ELSE ""

Success(redeem_result) ==
    JsonObject("SUCCESS", "Redeem executed successfully", {"tx_id", "tx_hash", "state"},
               << TxField(redeem_result, "transactionID"),
                  TxField(redeem_result, "transactionHash"),
                  TxField(redeem_result, "state") >>)

\* ---- exceptions ----
\* `except Exception` catches every exception but those derived from BaseException
\* only; sys.exit raises SystemExit, which is one of them.
ExceptExceptionBare(exc) == TRUE
ExceptException(exc) == exc # "SystemExit"

\* The process terminates with status `code`, having written `out`.
Exit(code, out) ==
    /\ at' = "exited"
    /\ exitCode' = code
    /\ stdout' = out

\* Exception `exc` (a SystemExit carrying `code`) leaves the body of the outer try.
OuterTry(exc, code, out) ==
    IF ExceptException(exc)
    THEN Exit(1, Append(out, UnexpectedError(exc)))
    ELSE Exit(code, out)

\* Exception `exc` leaves the body of the try around the balance check: the handler
\* is `pass`, and the redeem call follows.
BalanceTry(exc, code, out) ==
    IF ExceptException(exc)
    THEN /\ at' = "redeem"
         /\ stdout' = out
         /\ UNCHANGED exitCode
    ELSE OuterTry(exc, code, out)

\* ---- external calls ----
Call(op, args) == [op |-> op, args |-> args]

\* Construction of the clients and of the service, in program order.
ConstructionCalls(env) ==
    << Call("ClobClient", << "https://clob.polymarket.com", env["POLY_PRIVATE_KEY"],
                             "chain_id=137", "signature_type=1", env["POLY_PROXY_ADDRESS"] >>),
       Call("create_or_derive_api_creds", <<>>),
       Call("set_api_creds", <<>>),
       Call("BuilderApiKeyCreds", << env["BUILDER_API_KEY"], env["BUILDER_SECRET"],
                                     env["BUILDER_PASSPHRASE"] >>),
       Call("BuilderConfig", <<>>),
       Call("RelayClient", << "RELAYER_URL", "chain_id=137", env["POLY_PRIVATE_KEY"] >>),
       Call("PolyWeb3Service", <<>>) >>

ResolvedCall == Call("is_condition_resolved", <<condition_id>>)
BalanceCall == Call("get_redeemable_index_and_balance", <<condition_id>>)
RedeemCallNegRisk ==
    Call("redeem", <<condition_id, IF neg_risk THEN "neg_risk=True" ELSE "neg_risk=False">>)
RedeemCall == Call("redeem", <<condition_id>>)

\* What an external call did: it raised, or it returned `value`. A call not yet made
\* has asked = FALSE; a call made in an earlier invocation answers the same again.
Unasked(value) == [asked |-> FALSE, raised |-> FALSE, value |-> value]
Raised(value) == [asked |-> TRUE, raised |-> TRUE, value |-> value]
Returned(value) == [asked |-> TRUE, raised |-> FALSE, value |-> value]
Answers(recorded, r) == recorded.asked => r = recorded

\* Construction: value = number of construction calls invoked; raised with value k
\* means the k-th call raised (k = 0: one of the imports raised).
SdkResults ==
    { Raised(k) : k \in 0..Len(ConstructionCalls(environ)) }
        \cup { Returned(Len(ConstructionCalls(environ))) }

ResolvedResults == { Raised(FALSE), Returned(TRUE), Returned(FALSE) }

\* A balance query result: a list of (index, balance) pairs
BalanceLists ==
    UNION { [1..n -> 0..MaxBalance] : n \in 0..MaxEntries }
Redeemable(bals) == [k \in 1..Len(bals) |-> <<k - 1, bals[k]>>]
BalanceResults == { Raised(<<>>) } \cup { Returned(Redeemable(b)) : b \in BalanceLists }

TxKeys == {"transactionID", "transactionHash", "state"}
RedeemResults == { Raised({}) } \cup { Returned(ks) : ks \in SUBSET TxKeys }

\* not redeemable or all(bal == 0 for _, bal in redeemable)
NothingRedeemableEmptyOnly(redeemable) == Len(redeemable) = 0
NothingRedeemable(redeemable) ==
    \/ Len(redeemable) = 0
    \/ \A k \in 1..Len(redeemable) : redeemable[k][2] = 0

NoRun == [ran |-> FALSE, calls |-> <<>>, stdout |-> <<>>, exitCode |-> 0]

\* ---- the environments and argument lists explored ----
EnvValues == {None, "", "secret"}
Environments ==
    { env \in [RequiredSet -> EnvValues] :
        Cardinality({ v \in RequiredSet : env[v] # "secret" }) <= MaxUnset }
ArgvChoices ==
    { <<Script>>, <<Script, Cid>>, <<Script, Cid, NegRiskFlag>>,
      <<Script, NegRiskFlag>>, <<Script, NegRiskFlag, Cid>> }

RedeemInit ==
    /\ argv \in ArgvChoices
    /\ environ \in Environments
    /\ at = "start"
    /\ condition_id = None
    /\ neg_risk = FALSE
    /\ stdout = <<>>
    /\ exitCode = 0
    /\ calls = <<>>
    /\ sdkResult = Unasked(0)
    /\ resolvedResult = Unasked(FALSE)
    /\ balanceResult = Unasked(<<>>)
    /\ redeemResult = Unasked({})
    /\ prev = NoRun

extResults == <<sdkResult, resolvedResult, balanceResult, redeemResult>>
inputs == <<argv, environ, prev>>

\* lines 33-39
CheckUsage ==
    /\ at = "start"
    /\ IF Len(argv) < 2
       THEN /\ Exit(1, Append(stdout, UsageError))
            /\ UNCHANGED <<condition_id, neg_risk>>
       ELSE /\ condition_id' = argv[2]
            /\ neg_risk' = InArgv(NegRiskFlag, argv)
            /\ at' = "env"
            /\ UNCHANGED <<stdout, exitCode>>
    /\ UNCHANGED <<inputs, calls, extResults, compareVars>>

\* lines 41-50
CheckEnv ==
    /\ at = "env"
    /\ IF Len(Missing(environ)) > 0
       THEN Exit(1, Append(stdout, ConfigError(Missing(environ))))
       ELSE /\ at' = "construct"
            /\ UNCHANGED <<stdout, exitCode>>
    /\ UNCHANGED <<inputs, condition_id, neg_risk, calls, extResults, compareVars>>

\* lines 52-87
Construct ==
    /\ at = "construct"
    /\ \E r \in SdkResults :
        /\ Answers(sdkResult, r)
        /\ sdkResult' = r
        /\ calls' = calls \o SubSeq(ConstructionCalls(environ), 1, r.value)
        /\ IF r.raised
           THEN OuterTry("Exception", 0, stdout)
           ELSE /\ at' = "resolve"
                /\ UNCHANGED <<stdout, exitCode>>
    /\ UNCHANGED <<inputs, condition_id, neg_risk, resolvedResult, balanceResult, redeemResult>>
    /\ UNCHANGED compareVars

\* lines 89-100
Resolve ==
    /\ at = "resolve"
    /\ \E r \in ResolvedResults :
        /\ Answers(resolvedResult, r)
        /\ resolvedResult' = r
        /\ calls' = Append(calls, ResolvedCall)
        /\ IF r.raised
           THEN OuterTry("SystemExit", 0, Append(stdout, ResolutionError("Exception")))
           ELSE IF ~r.value
           THEN OuterTry("SystemExit", 0, Append(stdout, NotResolved))
           ELSE /\ at' = "balance"
                /\ UNCHANGED <<stdout, exitCode>>
    /\ UNCHANGED <<inputs, condition_id, neg_risk, sdkResult, balanceResult, redeemResult>>
    /\ UNCHANGED compareVars

\* lines 102-111
Balance ==
    /\ at = "balance"
    /\ \E r \in BalanceResults :
        /\ Answers(balanceResult, r)
        /\ balanceResult' = r
        /\ calls' = Append(calls, BalanceCall)
        /\ IF r.raised
           THEN BalanceTry("Exception", 0, stdout)
           ELSE IF NothingRedeemable(r.value)
           THEN BalanceTry("SystemExit", 0, Append(stdout, NoBalance))
           ELSE /\ at' = "redeem"
                /\ UNCHANGED <<stdout, exitCode>>
    /\ UNCHANGED <<inputs, condition_id, neg_risk, sdkResult, resolvedResult, redeemResult>>
    /\ UNCHANGED compareVars

\* lines 113-132
Redeem ==
    /\ at = "redeem"
    /\ \E r \in RedeemResults :
        /\ Answers(redeemResult, r)
        /\ redeemResult' = r
        /\ calls' = Append(calls, RedeemCall)
        /\ IF r.raised
           THEN OuterTry("Exception", 0, stdout)
           ELSE Exit(0, Append(stdout, Success(r.value)))
    /\ UNCHANGED <<inputs, condition_id, neg_risk, sdkResult, resolvedResult, balanceResult>>
    /\ UNCHANGED compareVars

\* The caller invokes the script again for the same condition, in the same
\* environment and against the same external state, with --neg-risk added after
\* the condition identifier or removed from there.
Reinvoke ==
    /\ at = "exited"
    /\ ~prev.ran
    /\ argv \in { <<Script, Cid>>, <<Script, Cid, NegRiskFlag>> }
    /\ prev' = [ran |-> TRUE, calls |-> calls, stdout |-> stdout, exitCode |-> exitCode]
    /\ argv' = IF argv = <<Script, Cid>> THEN <<Script, Cid, NegRiskFlag>> ELSE <<Script, Cid>>
    /\ at' = "start"
    /\ condition_id' = None
    /\ neg_risk' = FALSE
    /\ stdout' = <<>>
    /\ exitCode' = 0
    /\ calls' = <<>>
    /\ UNCHANGED <<environ, extResults, compareVars>>

RedeemNext ==
    \/ CheckUsage
    \/ CheckEnv
    \/ Construct
    \/ Resolve
    \/ Balance
    \/ Redeem
    \/ Reinvoke

-----------------------------------------------------------------------------
(* pyth_compare.py                                                         *)

Fields == {"ts", "bo", "bc", "bd", "bf"}
Directions == {"UP", "DN", "DOWN"}

\* A sample of the input file: the fields it holds, its timestamp and its
\* reference direction ("" stands for the value of a field the sample lacks).
\* The k-th sample starts the k-th five-minute window.
Sample(k, fields, bd) ==
    [fields |-> fields, ts |-> 300 * k, bd |-> IF "bd" \in fields THEN bd ELSE ""]

FieldSets == {Fields} \cup { Fields \ {f} : f \in Fields }

SampleLists ==
    UNION { { [k \in 1..n |-> Sample(k, fs[k], ds[k])] :
                fs \in [1..n -> FieldSets], ds \in [1..n -> Directions] } :
            n \in 0..MaxSamples }

\* pp(ts): the oracle's price, or an exception (network, HTTP status, parsing)
Prices == 1..MaxPrice
PriceResults == { Raised(0) } \cup { Returned(p) : p \in Prices }

Get(ts) == [op |-> "GET", ts |-> ts]
Sleep(ts) == [op |-> "sleep", ts |-> ts]

\* pd = 'UP' if pc > po else 'DN'
DirectionTiesUp(open, close) == IF close >= open THEN "UP" ELSE "DN"
Direction(open, close) == IF close > open THEN "UP" ELSE "DN"

\* lines 31-36: the formatted line of a sample
Line(k, sym, dir, bd) == [kind |-> "line", index |-> k, sym |-> sym, pd |-> dir, bd |-> bd]
\* line 40; enumerate() counts from 0
ErrLine(k) == [kind |-> "ERR", index |-> k - 1, sym |-> "", pd |-> "", bd |-> ""]
Text(kind) == [kind |-> kind, index |-> 0, sym |-> "", pd |-> "", bd |-> ""]

CompareInit ==
    /\ samples \in SampleLists
    /\ loc = "loop"
    /\ i = 0
    /\ po = 0
    /\ pc = 0
    /\ pd = ""
    /\ ok = FALSE
    /\ m = 0
    /\ x = 0
    /\ results = <<>>
    /\ console = <<>>
    /\ net = <<>>
    /\ report = <<>>

\* lines 39-40: the handler of the loop body, then the next iteration
Except ==
    /\ console' = Append(console, ErrLine(i))
    /\ loc' = "loop"

\* lines 20-21: s['ts'] is read before the try block
NextSample ==
    /\ loc = "loop"
    /\ IF i = Len(samples)
       THEN /\ loc' = "summary"
            /\ UNCHANGED i
       ELSE /\ i' = i + 1
            /\ loc' = IF "ts" \in samples[i + 1].fields THEN "fetch_open" ELSE "aborted_loop"
    /\ UNCHANGED <<samples, po, pc, pd, ok, m, x, results, console, net, report, redeemVars>>

\* lines 23-24: the request for ts, and the pause when it returned
FetchOpen ==
    /\ loc = "fetch_open"
    /\ \E r \in PriceResults :
        IF r.raised
        THEN /\ net' = Append(net, Get(samples[i].ts))
             /\ Except
             /\ UNCHANGED po
        ELSE /\ po' = r.value
             /\ net' = net \o <<Get(samples[i].ts), Sleep(samples[i].ts)>>
             /\ loc' = "fetch_close"
             /\ UNCHANGED console
    /\ UNCHANGED <<samples, i, pc, pd, ok, m, x, results, report, redeemVars>>

\* lines 25-26: the request for ts + 300, and the pause when it returned
FetchClose ==
    /\ loc = "fetch_close"
    /\ \E r \in PriceResults :
        IF r.raised
        THEN /\ net' = Append(net, Get(samples[i].ts + 300))
             /\ Except
             /\ UNCHANGED pc
        ELSE /\ pc' = r.value
             /\ net' = net \o <<Get(samples[i].ts + 300), Sleep(samples[i].ts + 300)>>
             /\ loc' = "compare"
             /\ UNCHANGED console
    /\ UNCHANGED <<samples, i, po, pd, ok, m, x, results, report, redeemVars>>

\* lines 27-38: s['bd'] is read before the counters change, s['bc'], s['bo'] and
\* s['bf'] after
Compare ==
    /\ loc = "compare"
    /\ pd' = Direction(po, pc)
    /\ IF "bd" \notin samples[i].fields
       THEN /\ Except
            /\ UNCHANGED <<ok, m, x, results>>
       ELSE /\ ok' = (pd' = samples[i].bd)
            /\ m' = IF ok' THEN m + 1 ELSE m
            /\ x' = IF ok' THEN x ELSE x + 1
            /\ IF {"bc", "bo", "bf"} \subseteq samples[i].fields
               THEN /\ console' = Append(console,
                          Line(i, IF ok' THEN "match" ELSE "mismatch", pd', samples[i].bd))
                    /\ results' = Append(results,
                          Line(i, IF ok' THEN "match" ELSE "mismatch", pd', samples[i].bd))
                    /\ loc' = "loop"
               ELSE /\ Except
                    /\ UNCHANGED results
    /\ UNCHANGED <<samples, i, po, pc, net, report, redeemVars>>

\* lines 42-45: m/t raises ZeroDivisionError when t = 0
Summary ==
    /\ loc = "summary"
    /\ IF m + x = 0
       THEN /\ console' = Append(console, Text("header"))
            /\ loc' = "aborted_division"
       ELSE /\ console' = console \o <<Text("header"), Text("rate"), Text("cumulative")>>
            /\ loc' = "write"
    /\ UNCHANGED <<samples, i, po, pc, pd, ok, m, x, results, net, report, redeemVars>>

\* lines 48-53: opening or writing the report file may raise
WriteReport ==
    /\ loc = "write"
    /\ \E written \in BOOLEAN :
        IF written
        THEN /\ report' = results \o <<Text("rate"), Text("cumulative")>>
             /\ console' = Append(console, Text("saved"))
             /\ loc' = "done"
        ELSE /\ loc' = "aborted_write"
             /\ UNCHANGED <<report, console>>
    /\ UNCHANGED <<samples, i, po, pc, pd, ok, m, x, results, net, redeemVars>>

CompareNext ==
    \/ NextSample
    \/ FetchOpen
    \/ FetchClose
    \/ Compare
    \/ Summary
    \/ WriteReport

-----------------------------------------------------------------------------
(* The two programs are separate processes: each specification runs one of *)
(* them and leaves the other's state at its initial value.                 *)

RedeemIdle ==
    /\ argv = <<Script>>
    /\ environ = [v \in RequiredSet |-> None]
    /\ at = "start"
    /\ condition_id = None
    /\ neg_risk = FALSE
    /\ stdout = <<>>
    /\ exitCode = 0
    /\ calls = <<>>
    /\ sdkResult = Unasked(0)
    /\ resolvedResult = Unasked(FALSE)
    /\ balanceResult = Unasked(<<>>)
    /\ redeemResult = Unasked({})
    /\ prev = NoRun

CompareIdle ==
    /\ samples = <<>>
    /\ loc = "loop"
    /\ i = 0
    /\ po = 0
    /\ pc = 0
    /\ pd = ""
    /\ ok = FALSE
    /\ m = 0
    /\ x = 0
    /\ results = <<>>
    /\ console = <<>>
    /\ net = <<>>
    /\ report = <<>>

InitRedeem == RedeemInit /\ CompareIdle
SpecRedeem == InitRedeem /\ [][RedeemNext]_vars

InitCompare == CompareInit /\ RedeemIdle
SpecCompare == InitCompare /\ [][CompareNext]_vars

-----------------------------------------------------------------------------
(* Properties of redeem.py, checked under SpecRedeem                       *)

Exited == at = "exited"
Outcome == stdout[Len(stdout)]
Unset(v) == environ[v] = None
RedeemCalls == { k \in 1..Len(calls) : calls[k].op = "redeem" }
SomeNonzero(redeemable) == \E k \in 1..Len(redeemable) : redeemable[k][2] # 0
AllZero(redeemable) == \A k \in 1..Len(redeemable) : redeemable[k][2] = 0
Resolved == resolvedResult.asked /\ ~resolvedResult.raised /\ resolvedResult.value
Is(status, code) == Outcome.status = status /\ exitCode = code

\* C1: every run ends, and the outcome it ends in is the one the argument list, the
\* environment and the results of the external calls determine: no argument or a
\* missing (unset or empty) variable gives ERROR/1; a raising resolution query
\* ERROR/0; unresolved NOT_RESOLVED/0; resolved with only zero balances
\* NO_BALANCE/0; resolved with a nonzero balance or a raising balance query, and
\* redeem returning, SUCCESS/0 with tx_id, tx_hash and state; redeem raising (or
\* construction raising) ERROR/1 with a traceback.
C1_OutcomeMapping ==
    /\ ~Exited => ENABLED RedeemNext
    /\ Exited =>
        /\ Len(stdout) >= 1
        /\ Len(argv) < 2 => Is("ERROR", 1)
        /\ (\E v \in RequiredSet : environ[v] \in {None, ""}) => Is("ERROR", 1)
        /\ sdkResult.raised => Is("ERROR", 1) /\ "traceback" \in Outcome.keys
        /\ resolvedResult.raised => Is("ERROR", 0) /\ "traceback" \notin Outcome.keys
        /\ (resolvedResult.asked /\ ~resolvedResult.raised /\ ~resolvedResult.value)
              => Is("NOT_RESOLVED", 0)
        /\ (Resolved /\ balanceResult.asked /\ ~balanceResult.raised
                /\ AllZero(balanceResult.value))
              => Is("NO_BALANCE", 0)
        /\ (Resolved /\ balanceResult.asked
                /\ (balanceResult.raised \/ SomeNonzero(balanceResult.value))
                /\ redeemResult.asked /\ ~redeemResult.raised)
              => /\ Is("SUCCESS", 0)
                 /\ {"tx_id", "tx_hash", "state"} \subseteq Outcome.keys
        /\ redeemResult.raised => Is("ERROR", 1) /\ "traceback" \in Outcome.keys
        /\ \/ Len(argv) < 2
           \/ \E v \in RequiredSet : environ[v] \in {None, ""}
           \/ sdkResult.raised
           \/ resolvedResult.asked /\ (resolvedResult.raised \/ ~resolvedResult.value)
           \/ Resolved /\ balanceResult.asked /\ ~balanceResult.raised
                /\ AllZero(balanceResult.value)
           \/ redeemResult.asked

\* the balance query raised, redeem was called all the same and returned
C1_Witness ==
    /\ Exited
    /\ balanceResult.raised
    /\ redeemResult.asked /\ ~redeemResult.raised
    /\ Is("SUCCESS", 0)

\* C2: a run writes exactly one JSON object before it terminates: none while it
\* runs, never two, also when sys.exit(0) is called inside the try blocks.
C2_ExactlyOneObject ==
    /\ Len(stdout) <= 1
    /\ Exited => Len(stdout) = 1
    /\ ~Exited => Len(stdout) = 0

\* sys.exit(0) inside the balance try block, inside the outer try block
C2_Witness ==
    /\ Exited
    /\ stdout = <<NoBalance>>
    /\ exitCode = 0

\* C3 as stated: with a required variable absent the run ends with the config
\* ERROR and exit code 1 and makes no external call, and external calls are made
\* only with all eight variables present.
C3_Original ==
    /\ (Exited /\ \E v \in RequiredSet : Unset(v)) =>
          /\ Outcome.status = "ERROR"
          /\ Outcome.message = "Missing env vars: "
          /\ exitCode = 1
          /\ calls = <<>>
    /\ calls # <<>> => \A v \in RequiredSet : ~Unset(v)

\* C3 amended: with a required variable absent no external call is ever made and
\* the run ends with exit code 1: with the config ERROR naming the absent
\* variables when at least one argument was given, with the usage ERROR when none
\* was; external calls are made only with all eight variables present.
C3_Amended ==
    /\ (\E v \in RequiredSet : Unset(v)) => calls = <<>>
    /\ (Exited /\ \E v \in RequiredSet : Unset(v)) =>
          /\ exitCode = 1
          /\ Outcome.status = "ERROR"
          /\ Len(argv) >= 2 =>
                /\ Outcome.message = "Missing env vars: "
                /\ \A v \in RequiredSet :
                      Unset(v) => \E k \in 1..Len(Outcome.detail) : Outcome.detail[k] = v
          /\ Len(argv) < 2 => Outcome = UsageError
    /\ calls # <<>> => \A v \in RequiredSet : ~Unset(v)

\* a builder variable is absent, a condition identifier is given
C3_Witness ==
    /\ Exited
    /\ Len(argv) >= 2
    /\ Unset("BUILDER_SECRET")
    /\ Outcome.message = "Missing env vars: "
    /\ exitCode = 1
    /\ calls = <<>>

\* the arguments that are not flags
Positional(args) == SelectSeq(Tail(args), LAMBDA a : a # NegRiskFlag)

\* C4: a run given no condition identifier (no positional argument), the run given
\* only --neg-risk included, ends with the usage ERROR and exit code 1 and makes
\* no external call.
C4_UsageWithoutConditionId ==
    (Exited /\ Len(Positional(argv)) < 1) =>
        /\ stdout = <<UsageError>>
        /\ exitCode = 1
        /\ calls = <<>>

\* C9: redeem is invoked at most once per run, and only after the resolution query
\* returned 'resolved' and the balance query was made and raised or returned a
\* nonzero balance.
C9_RedeemGuarded ==
    /\ Cardinality(RedeemCalls) <= 1
    /\ \A k \in RedeemCalls :
        /\ \E a \in 1..k, b \in 1..k :
              /\ a < b /\ b < k
              /\ calls[a].op = "is_condition_resolved"
              /\ calls[b].op = "get_redeemable_index_and_balance"
        /\ resolvedResult = Returned(TRUE)
        /\ balanceResult.asked
        /\ balanceResult.raised \/ SomeNonzero(balanceResult.value)

\* redeem called after a balance query that raised
C9_Witness ==
    /\ RedeemCalls # {}
    /\ balanceResult.raised

\* C10: two runs that differ only in --neg-risk after the condition identifier make
\* the same external calls with the same arguments and end with the same output
\* and exit code.
C10_NegRiskNoEffect ==
    (Exited /\ prev.ran) =>
        /\ calls = prev.calls
        /\ stdout = prev.stdout
        /\ exitCode = prev.exitCode

\* the second of two runs that redeemed
C10_Witness ==
    /\ Exited
    /\ prev.ran
    /\ InArgv(NegRiskFlag, argv)
    /\ RedeemCalls # {}
    /\ Is("SUCCESS", 0)

-----------------------------------------------------------------------------
(* Properties of pyth_compare.py, checked under SpecCompare                *)

NumErr == Cardinality({ k \in 1..Len(console) : console[k].kind = "ERR" })
LoopOver == loc \in {"summary", "write", "done", "aborted_division", "aborted_write"}
Requests == SelectSeq(net, LAMBDA e : e.op = "GET")

\* C5: a sample whose processing fails changes neither m nor x: after the loop
\* m + x is the number of samples processed without failure and the number of
\* result lines.
C5_FailedSamplesUncounted ==
    LoopOver =>
        /\ m + x = Len(samples) - NumErr
        /\ m + x = Len(results)

\* C6: no failure of a sample aborts the run: the loop goes through every sample
\* and reaches the summary; only the division and the report write abort.
C6_SampleFailuresConfined ==
    /\ loc # "aborted_loop"
    /\ LoopOver => i = Len(samples)

C8_PauseAfterEveryRequest ==
    /\ \A k \in 1..(Len(net) - 1) : net[k].op = "GET" => net[k + 1].op = "sleep"
    /\ \A k \in 1..(Len(Requests) - 1) : Requests[k].ts <= Requests[k + 1].ts

=============================================================================
